---- MODULE Spec2Model ----
(***************************************************************************)
(* Weekly report generator: the text helpers (exclusion filter, duration   *)
(* parser, name normalizers, categorizer), the six aggregators and the two *)
(* generate_report entry points (app.py, the local application, and        *)
(* api/index.py, the serverless function).                                  *)
(*                                                                         *)
(* Text is a sequence of one-character strings; NaN is a missing cell.     *)
(* Minutes are kept in sixtieths of a minute (seconds), so that            *)
(* hours*60 + minutes + seconds/60 is exact.                               *)
(***************************************************************************)
EXTENDS Integers, Sequences, FiniteSets, TLC

VARIABLES fn, fn_arg, fn_out

fvars == <<fn, fn_arg, fn_out>>

(***************************************************************************)
(* Characters and Python's str methods                                     *)
(***************************************************************************)
UpperLetters ==
    <<"A","B","C","D","E","F","G","H","I","J","K","L","M",
      "N","O","P","Q","R","S","T","U","V","W","X","Y","Z">>

LowerLetters ==
    <<"a","b","c","d","e","f","g","h","i","j","k","l","m",
      "n","o","p","q","r","s","t","u","v","w","x","y","z">>

Digits == <<"0","1","2","3","4","5","6","7","8","9">>

\* The characters the model's texts use, in code-point order.
CodePoints ==
    <<"\t", " ", "\"", "(", ")", "+", ",", "-", ".">> \o Digits \o <<":">>
      \o UpperLetters \o <<"_">> \o LowerLetters

Whitespace == {" ", "\t"}

NaN == <<"<NaN>">>

pd_isna(x) == x = NaN

IndexIn(seq, c) == CHOOSE i \in 1..Len(seq) : seq[i] = c

IsIn(seq, c) == \E i \in 1..Len(seq) : seq[i] = c

lower_char(c) == IF IsIn(UpperLetters, c) THEN LowerLetters[IndexIn(UpperLetters, c)] ELSE c

upper_char(c) == IF IsIn(LowerLetters, c) THEN UpperLetters[IndexIn(LowerLetters, c)] ELSE c

str_lower(s) == [i \in 1..Len(s) |-> lower_char(s[i])]

str_upper(s) == [i \in 1..Len(s) |-> upper_char(s[i])]

\* s.strip()
str_strip(s) ==
    IF \A i \in 1..Len(s) : s[i] \in Whitespace
    THEN <<>>
    ELSE LET a == CHOOSE i \in 1..Len(s) :
                      s[i] \notin Whitespace /\ \A j \in 1..(i-1) : s[j] \in Whitespace
             b == CHOOSE i \in 1..Len(s) :
                      s[i] \notin Whitespace /\ \A j \in (i+1)..Len(s) : s[j] \in Whitespace
         IN SubSeq(s, a, b)

\* sub in s
str_contains(s, sub) ==
    \E i \in 0..(Len(s) - Len(sub)) : SubSeq(s, i + 1, i + Len(sub)) = sub

\* s.endswith(suffix)
str_endswith(s, suffix) ==
    /\ Len(s) >= Len(suffix)
    /\ SubSeq(s, Len(s) - Len(suffix) + 1, Len(s)) = suffix

\* s.replace(c, '') for a single character c
RECURSIVE str_remove_char(_, _)
str_remove_char(s, c) ==
    IF s = <<>> THEN <<>>
    ELSE IF Head(s) = c THEN str_remove_char(Tail(s), c)
    ELSE <<Head(s)>> \o str_remove_char(Tail(s), c)

\* s.split(sep) for a single character sep: empty fields are kept
RECURSIVE str_split_on(_, _)
str_split_on(s, sep) ==
    IF ~IsIn(s, sep) THEN <<s>>
    ELSE LET k == CHOOSE i \in 1..Len(s) : s[i] = sep /\ \A j \in 1..(i-1) : s[j] # sep
         IN <<SubSeq(s, 1, k - 1)>> \o str_split_on(SubSeq(s, k + 1, Len(s)), sep)

\* s.split(): the maximal runs of non-whitespace
RECURSIVE str_split(_)
str_split(s) ==
    LET t == str_strip(s)
    IN IF t = <<>> THEN <<>>
       ELSE IF \A i \in 1..Len(t) : t[i] \notin Whitespace THEN <<t>>
       ELSE LET k == CHOOSE i \in 1..Len(t) :
                         t[i] \in Whitespace /\ \A j \in 1..(i-1) : t[j] \notin Whitespace
            IN <<SubSeq(t, 1, k - 1)>> \o str_split(SubSeq(t, k + 1, Len(t)))

\* The index where the whitespace run that ends at position k begins
\* (k + 1 when position k holds no whitespace).
RunStart(s, k) ==
    CHOOSE i \in 1..(k + 1) :
        /\ \A j \in i..k : s[j] \in Whitespace
        /\ (i = 1 \/ s[i - 1] \notin Whitespace)

\* Code-point order on texts (the order of groupby's keys)
RECURSIVE str_less(_, _)
str_less(a, b) ==
    IF b = <<>> THEN FALSE
    ELSE IF a = <<>> THEN TRUE
    ELSE IF Head(a) = Head(b) THEN str_less(Tail(a), Tail(b))
    ELSE IndexIn(CodePoints, Head(a)) < IndexIn(CodePoints, Head(b))

(***************************************************************************)
(* Exclusion filter (app.py only: api/index.py has none)                    *)
(***************************************************************************)
EX_daniel_raphael == <<"d","a","n","i","e","l"," ","r","a","p","h","a","e","l">>

EX_dan_raphael == <<"d","a","n"," ","r","a","p","h","a","e","l">>

EX_draphael == <<"d","r","a","p","h","a","e","l">>

EXCLUDED_NAMES == <<EX_daniel_raphael, EX_dan_raphael, EX_draphael>>

should_exclude_name(name) ==
    IF pd_isna(name) THEN FALSE
    ELSE LET name_lower == str_strip(str_lower(name))
         IN \E k \in 1..Len(EXCLUDED_NAMES) : str_contains(name_lower, EXCLUDED_NAMES[k])

(***************************************************************************)
(* Duration parser                                                         *)
(***************************************************************************)
NoData == <<"N","o"," ","d","a","t","a">>

RECURSIVE digits_value(_)
digits_value(ds) ==
    IF ds = <<>> THEN 0
    ELSE digits_value(SubSeq(ds, 1, Len(ds) - 1)) * 10 + (IndexIn(Digits, ds[Len(ds)]) - 1)

\* int(text): surrounding whitespace, one optional sign, decimal digits with
\* single underscores between digits; anything else raises ValueError.
py_int(text) ==
    LET t == str_strip(text)
        signed == t # <<>> /\ t[1] \in {"+", "-"}
        body == IF signed THEN Tail(t) ELSE t
        wellformed ==
            /\ body # <<>>
            /\ \A i \in 1..Len(body) :
                  \/ IsIn(Digits, body[i])
                  \/ /\ body[i] = "_"
                     /\ i > 1 /\ i < Len(body)
                     /\ IsIn(Digits, body[i - 1]) /\ IsIn(Digits, body[i + 1])
        magnitude == digits_value(str_remove_char(body, "_"))
    IN IF wellformed
       THEN [exc |-> "none", value |-> IF t[1] = "-" THEN 0 - magnitude ELSE magnitude]
       ELSE [exc |-> "ValueError", value |-> 0]

\* The result of parse_duration_to_minutes: None, a number of minutes (in
\* sixtieths), or an exception that leaves the function.
NoValue == [isNone |-> TRUE, sixtieths |-> 0, exc |-> "none"]

Minutes(n) == [isNone |-> FALSE, sixtieths |-> n, exc |-> "none"]

Raises(e) == [isNone |-> TRUE, sixtieths |-> 0, exc |-> e]

\* except (ValueError, AttributeError)
DurationCaught == {"ValueError", "AttributeError"}

\* A slip in the field count test: extra fields are let through.
DurationFieldCountAtLeast(parts) == Len(parts) >= 3

DurationFieldCount(parts) == Len(parts) = 3

\* hours * 60 + minutes + seconds / 60 over the three results of int()
duration_of_fields(hours, minutes, seconds) ==
    IF hours.exc # "none"
    THEN (IF hours.exc \in DurationCaught THEN NoValue ELSE Raises(hours.exc))
    ELSE IF minutes.exc # "none"
    THEN (IF minutes.exc \in DurationCaught THEN NoValue ELSE Raises(minutes.exc))
    ELSE IF seconds.exc # "none"
    THEN (IF seconds.exc \in DurationCaught THEN NoValue ELSE Raises(seconds.exc))
    ELSE Minutes(hours.value * 3600 + minutes.value * 60 + seconds.value)

duration_of_parts(parts) ==
    IF DurationFieldCount(parts)
    THEN duration_of_fields(py_int(parts[1]), py_int(parts[2]), py_int(parts[3]))
    ELSE NoValue

parse_duration_to_minutes(duration_str) ==
    IF pd_isna(duration_str) \/ duration_str = NoData \/ duration_str = <<>>
    THEN NoValue
    ELSE duration_of_parts(str_split_on(duration_str, ":"))

(***************************************************************************)
(* Name normalizers                                                        *)
(***************************************************************************)
SFX_np == <<"n","p">>

SFX_fnp_c == <<"f","n","p","-","c">>

SFX_md == <<"m","d">>

SFX_pa == <<"p","a">>

SFX_llc == <<"l","l","c">>

SFX_inc == <<"i","n","c">>

SFX_inc_dot == <<"i","n","c",".">>

SFX_pllc == <<"p","l","l","c">>

\* (NP|FNP-C|MD|PA|LLC|Inc\.?|INC\.?|PLLC), re.IGNORECASE
SuffixTokens ==
    {SFX_np, SFX_fnp_c, SFX_md, SFX_pa, SFX_llc, SFX_inc, SFX_inc_dot, SFX_pllc}

\* re.sub(r'\s+(NP|FNP-C|MD|PA|LLC|Inc\.?|INC\.?|PLLC)$', '', name, IGNORECASE):
\* the text ends with whitespace followed by one token; the match starts where
\* that whitespace run starts.
sub_credential_suffix(name) ==
    LET low == str_lower(name)
        hits == {t \in SuffixTokens :
                    /\ Len(name) > Len(t)
                    /\ str_endswith(low, t)
                    /\ name[Len(name) - Len(t)] \in Whitespace}
    IN IF hits = {} THEN name
       ELSE LET t == CHOOSE x \in hits : TRUE
            IN SubSeq(name, 1, RunStart(name, Len(name) - Len(t)) - 1)

\* re.sub(r',\s*NP$', '', name, IGNORECASE): a comma, optional whitespace, NP,
\* end of text.
sub_comma_np(name) ==
    IF ~(Len(name) > 2 /\ str_endswith(str_lower(name), SFX_np)) THEN name
    ELSE LET r == RunStart(name, Len(name) - 2)
         IN IF r > 1 /\ name[r - 1] = "," THEN SubSeq(name, 1, r - 2) ELSE name

\* get_gusto_hours.normalize_name
gusto_normalize_name(name) ==
    IF pd_isna(name) THEN <<>>
    ELSE str_strip(str_lower(sub_comma_np(sub_credential_suffix(str_strip(name)))))

\* get_hours_worked.normalize_name
hours_normalize_name(name) ==
    IF pd_isna(name) THEN <<>>
    ELSE str_strip(sub_comma_np(sub_credential_suffix(str_lower(str_strip(name)))))

(***************************************************************************)
(* Categorizer                                                             *)
(***************************************************************************)
TRT == <<"T","R","T">>

FOUNTAINTRT == <<"F","O","U","N","T","A","I","N","T","R","T">>

HRT == <<"H","R","T">>

\* A slip in the order of the tests: HRT is looked for first.
get_category_hrt_first(event_type) ==
    IF pd_isna(event_type) THEN "Other"
    ELSE LET event_upper == str_upper(event_type)
         IN IF str_contains(event_upper, HRT) THEN "HRT"
            ELSE IF str_contains(event_upper, TRT) THEN "TRT"
            ELSE "Other"

get_category(event_type) ==
    IF pd_isna(event_type) THEN "Other"
    ELSE LET event_upper == str_upper(event_type)
         IN IF str_contains(event_upper, TRT) \/ str_contains(event_upper, FOUNTAINTRT)
            THEN "TRT"
            ELSE IF str_contains(event_upper, HRT) THEN "HRT"
            ELSE "Other"

(***************************************************************************)
(* State                                                                   *)
(* fn, fn_arg, fn_out: one helper applied to one input (fn_out holds the   *)
(* results of the applications so far).  The other variables are one       *)
(* invocation of generate_report: the uploaded files, the position in the  *)
(* function, and its local variables.                                      *)
(***************************************************************************)
VARIABLES entry, pc, doxy_file, account_file, gusto_file, booking_file,
          errors, doxy_df, account_content, gusto_df, booking_df,
          doxy_visits, oncehub_visits, visits_by_program, gusto_hours,
          performance_metrics, hours_worked, stats, raised, ran, output

pvars == <<entry, pc, doxy_file, account_file, gusto_file, booking_file,
           errors, doxy_df, account_content, gusto_df, booking_df,
           doxy_visits, oncehub_visits, visits_by_program, gusto_hours,
           performance_metrics, hours_worked, stats, raised, ran, output>>

vars == <<fvars, pvars>>

\* A local variable that holds None (or is not yet assigned).
None == [isNone |-> TRUE, columns |-> <<>>, rows |-> <<>>]

DataFrame(cols, rws) == [isNone |-> FALSE, columns |-> cols, rows |-> rws]

NoFile == [supplied |-> FALSE]

NoStats == [providers |-> 0, total_visits |-> 0, sheets |-> 0]

\* No invocation of generate_report is under way.
NoInvocation ==
    /\ entry = "none" /\ pc = "idle"
    /\ doxy_file = NoFile /\ account_file = NoFile
    /\ gusto_file = NoFile /\ booking_file = NoFile
    /\ errors = <<>>
    /\ doxy_df = None /\ account_content = None /\ gusto_df = None /\ booking_df = None
    /\ doxy_visits = None /\ oncehub_visits = None /\ visits_by_program = None
    /\ gusto_hours = None /\ performance_metrics = None /\ hours_worked = None
    /\ stats = NoStats /\ raised = "none" /\ ran = <<>> /\ output = <<>>

(***************************************************************************)
(* The helpers applied to bounded inputs                                   *)
(***************************************************************************)
MaxPieces == 3

MaxFields == 4

MaxEventLen == 5

\* Raw names: up to MaxPieces pieces, concatenated.
NamePieces ==
    {<<"J","a","n","e"," ","D","o","e">>, <<"A","l">>, <<" ","N","P">>, <<" ","m","d">>, <<",","N","P">>, <<","," ","n","p">>, <<" ","I","n","c",".">>, <<" ","F","N","P","-","C">>,
     <<" ">>, <<",">>}

RECURSIVE Concatenations(_, _)
Concatenations(pieces, n) ==
    IF n = 0 THEN {<<>>}
    ELSE LET shorter == Concatenations(pieces, n - 1)
         IN shorter \cup {s \o p : s \in shorter, p \in pieces}

RawNames == Concatenations(NamePieces, MaxPieces) \cup {NaN}

\* Base names and the credential suffixes of the normalizers' list.
BaseNames == {<<"J","a","n","e"," ","D","o","e">>, <<"a","l"," "," ","r","o","e">>, <<"Q">>}

CredentialSuffixes ==
    {<<"N","P">>, <<"F","N","P","-","C">>, <<"M","D">>, <<"P","A">>, <<"L","L","C">>, <<"I","n","c">>, <<"I","n","c",".">>, <<"I","N","C",".">>, <<"P","L","L","C">>, <<"n","p">>, <<"p","l","l","c">>}

Suffixed == [normalizer : {"gusto", "hours"}, base : BaseNames, suffix : CredentialSuffixes]

\* Duration tokens: up to MaxFields fields joined by colons, and the named ones.
DurationFields ==
    {<<>>, <<"0","0">>, <<"0","1">>, <<"0","2">>, <<"0","3">>, <<"2","5">>,
     <<"-","1">>, <<" ","2"," ">>, <<"x">>, <<"1","_","0">>}

RECURSIVE JoinedFields(_)
JoinedFields(n) ==
    IF n = 1 THEN DurationFields
    ELSE LET shorter == JoinedFields(n - 1)
         IN shorter \cup {s \o <<":">> \o f : s \in shorter, f \in DurationFields}

DurationTokens == JoinedFields(MaxFields) \cup {NaN, NoData, <<"n","o"," ","d","a","t","a">>, <<" ">>}

\* Event types: every text of up to MaxEventLen characters, and the named ones.
EventAlphabet == {<<"T">>, <<"R">>, <<"H">>, <<"t">>, <<"h">>, <<"x">>}

EventTypes ==
    Concatenations(EventAlphabet, MaxEventLen)
      \cup {NaN, <<"T","R","T"," ","F","o","l","l","o","w","-","u","p">>, <<"H","R","T"," ","I","n","i","t","i","a","l">>, <<"W","e","l","l","n","e","s","s"," ","C","h","e","c","k">>, <<"F","o","u","n","t","a","i","n","T","R","T">>,
            <<"t","r","t"," ","f","o","l","l","o","w","-","u","p">>, <<"h","r","t"," ","i","n","i","t","i","a","l">>, <<"F","o","u","n","t","a","i","n"," ","H","R","T">>}

\* get_gusto_hours.is_in_doxy: the tokens of name.split()
Tokens(text) == LET parts == str_split(text) IN {parts[i] : i \in 1..Len(parts)}

\* A slip in the matcher: one shared token is taken for a match.
is_in_doxy_one_token(name_normalized, doxy_normalized) ==
    /\ name_normalized # <<>>
    /\ \E doxy_name \in doxy_normalized :
          \/ Cardinality(Tokens(name_normalized) \cap Tokens(doxy_name)) >= 1
          \/ name_normalized = doxy_name

\* A slip in the matcher: the tokens of the payroll name need only be among
\* those of the visit name.
is_in_doxy_contained(name_normalized, doxy_normalized) ==
    /\ name_normalized # <<>>
    /\ \E doxy_name \in doxy_normalized :
          \/ Tokens(name_normalized) \subseteq Tokens(doxy_name)
          \/ name_normalized = doxy_name

is_in_doxy(name_normalized, doxy_normalized) ==
    /\ name_normalized # <<>>
    /\ \E doxy_name \in doxy_normalized :
          \/ Cardinality(Tokens(name_normalized) \cap Tokens(doxy_name)) >= 2
          \/ name_normalized = doxy_name

\* Normalized identities: up to MaxTokens tokens joined by single spaces (the
\* empty identity, repeated tokens), and one with a doubled space.
MaxTokens == 3

IdentityTokens == {<<"j","a","n","e">>, <<"d","o","e">>, <<"q">>}

RECURSIVE JoinedTokens(_)
JoinedTokens(n) ==
    IF n = 0 THEN {<<>>}
    ELSE LET shorter == JoinedTokens(n - 1)
         IN shorter \cup IdentityTokens
              \cup {s \o <<" ">> \o t : s \in shorter \ {<<>>}, t \in IdentityTokens}

Identities == JoinedTokens(MaxTokens) \cup {<<"j","a","n","e"," "," ","d","o","e">>}

normalizer_of(which, name) ==
    IF which = "gusto" THEN gusto_normalize_name(name) ELSE hours_normalize_name(name)

InitFn ==
    /\ \/ fn \in {"gusto_normalize_name", "hours_normalize_name"} /\ fn_arg \in RawNames
       \/ fn = "normalize_suffixed" /\ fn_arg \in Suffixed
       \/ fn = "parse_duration_to_minutes" /\ fn_arg \in DurationTokens
       \/ fn = "get_category" /\ fn_arg \in EventTypes
       \/ fn = "is_in_doxy" /\ fn_arg \in Identities \X Identities
    /\ fn_out = <<>>
    /\ NoInvocation

\* normalize_name applied to the raw name, then to its own result.
CallGustoNormalize ==
    /\ fn = "gusto_normalize_name" /\ Len(fn_out) < 2
    /\ fn_out' = Append(fn_out,
                        gusto_normalize_name(IF fn_out = <<>> THEN fn_arg ELSE fn_out[Len(fn_out)]))
    /\ UNCHANGED <<fn, fn_arg, pvars>>

CallHoursNormalize ==
    /\ fn = "hours_normalize_name" /\ Len(fn_out) < 2
    /\ fn_out' = Append(fn_out,
                        hours_normalize_name(IF fn_out = <<>> THEN fn_arg ELSE fn_out[Len(fn_out)]))
    /\ UNCHANGED <<fn, fn_arg, pvars>>

\* normalize_name applied to "X", "X S" and "X, S".
CallNormalizeSuffixed ==
    /\ fn = "normalize_suffixed" /\ fn_out = <<>>
    /\ fn_out' = <<normalizer_of(fn_arg.normalizer, fn_arg.base),
                   normalizer_of(fn_arg.normalizer, fn_arg.base \o <<" ">> \o fn_arg.suffix),
                   normalizer_of(fn_arg.normalizer, fn_arg.base \o <<",", " ">> \o fn_arg.suffix)>>
    /\ UNCHANGED <<fn, fn_arg, pvars>>

CallParseDuration ==
    /\ fn = "parse_duration_to_minutes" /\ fn_out = <<>>
    /\ fn_out' = <<parse_duration_to_minutes(fn_arg)>>
    /\ UNCHANGED <<fn, fn_arg, pvars>>

CallGetCategory ==
    /\ fn = "get_category" /\ fn_out = <<>>
    /\ fn_out' = <<get_category(fn_arg)>>
    /\ UNCHANGED <<fn, fn_arg, pvars>>

\* is_in_doxy(a) with b the one normalized visit-provider name.
CallIsInDoxy ==
    /\ fn = "is_in_doxy" /\ fn_out = <<>>
    /\ fn_out' = <<is_in_doxy(fn_arg[1], {fn_arg[2]})>>
    /\ UNCHANGED <<fn, fn_arg, pvars>>

NextFn ==
    \/ CallGustoNormalize
    \/ CallHoursNormalize
    \/ CallNormalizeSuffixed
    \/ CallParseDuration
    \/ CallGetCategory
    \/ CallIsInDoxy

SpecFn == InitFn /\ [][NextFn]_vars

(***************************************************************************)
(* Properties of the helpers, under SpecFn                                  *)
(***************************************************************************)
Normalized == fn \in {"gusto_normalize_name", "hours_normalize_name"}

\* C2: normalize_name(normalize_name(x)) = normalize_name(x) for every raw
\* name x, for the payroll filter's normalizer and for the reconciler's.
C2_NormalizeIdempotent ==
    (Normalized /\ Len(fn_out) = 2) => fn_out[2] = fn_out[1]

\* C3: for every base name X and every suffix S of the list,
\* normalize("X, S") = normalize("X S") = normalize("X").
C3_SuffixStripped ==
    (fn = "normalize_suffixed" /\ fn_out # <<>>) =>
        (fn_out[2] = fn_out[1] /\ fn_out[3] = fn_out[1])

\* The positions of the colons of a token, and the fields between them.
ColonsOf(token) == {i \in 1..Len(token) : token[i] = ":"}

IsIntegerField(field) == py_int(field).exc = "none"

ThreeIntegerFields(token) ==
    /\ Cardinality(ColonsOf(token)) = 2
    /\ LET c1 == CHOOSE i \in ColonsOf(token) : \A j \in ColonsOf(token) : i <= j
           c2 == CHOOSE i \in ColonsOf(token) : \A j \in ColonsOf(token) : j <= i
       IN /\ IsIntegerField(SubSeq(token, 1, c1 - 1))
          /\ IsIntegerField(SubSeq(token, c1 + 1, c2 - 1))
          /\ IsIntegerField(SubSeq(token, c2 + 1, Len(token)))

ExpectedMinutes(token) ==
    LET c1 == CHOOSE i \in ColonsOf(token) : \A j \in ColonsOf(token) : i <= j
        c2 == CHOOSE i \in ColonsOf(token) : \A j \in ColonsOf(token) : j <= i
    IN py_int(SubSeq(token, 1, c1 - 1)).value * 3600
         + py_int(SubSeq(token, c1 + 1, c2 - 1)).value * 60
         + py_int(SubSeq(token, c2 + 1, Len(token))).value

\* C9: the parser gives no value for a null, empty, "No data" or malformed
\* token (not exactly three colon-separated integer fields), and otherwise
\* hours*60 + minutes + seconds/60; "01:02:03" gives 62.05 minutes and
\* "00:00:00" gives 0, a value; no exception leaves the parser.
C9_DurationParser ==
    (fn = "parse_duration_to_minutes" /\ fn_out # <<>>) =>
        /\ fn_out[1].exc = "none"
        /\ IF fn_arg \in {NaN, <<>>, NoData} \/ ~ThreeIntegerFields(fn_arg)
           THEN fn_out[1].isNone
           ELSE ~fn_out[1].isNone /\ fn_out[1].sixtieths = ExpectedMinutes(fn_arg)
        /\ (fn_arg = <<"0","1",":","0","2",":","0","3">> => fn_out[1] = Minutes(3723))
        /\ (fn_arg = <<"0","0",":","0","0",":","0","0">> => fn_out[1] = Minutes(0))

C9_Witness ==
    /\ fn = "parse_duration_to_minutes"
    /\ fn_arg = <<"0","1",":","0","2",":","0","3">>
    /\ fn_out = <<Minutes(3723)>>

\* A word occurs in a text, whatever the letter case of the text.
OccursIgnoringCase(text, word) ==
    \E i \in 0..(Len(text) - Len(word)) :
        \A k \in 1..Len(word) : upper_char(text[i + k]) = word[k]

\* C10: the category is TRT if the text, upper-cased, contains "TRT", else HRT
\* if it contains "HRT", else Other; an absent text gives Other; the letter
\* case of the text does not matter; a text with both is TRT.
C10_Categorizer ==
    (fn = "get_category" /\ fn_out # <<>>) =>
        /\ fn_out[1] = (IF fn_arg = NaN THEN "Other"
                        ELSE IF OccursIgnoringCase(fn_arg, TRT) THEN "TRT"
                        ELSE IF OccursIgnoringCase(fn_arg, HRT) THEN "HRT"
                        ELSE "Other")
        /\ (fn_arg # NaN => /\ get_category(str_lower(fn_arg)) = fn_out[1]
                            /\ get_category(str_upper(fn_arg)) = fn_out[1])

C10_Witness ==
    /\ fn = "get_category"
    /\ fn_arg # NaN
    /\ fn_arg # str_upper(fn_arg)
    /\ str_contains(str_upper(fn_arg), TRT)
    /\ str_contains(str_upper(fn_arg), HRT)
    /\ fn_out = <<"TRT">>

(***************************************************************************)
(* Tables: a DataFrame is its column names and its rows, in order          *)
(***************************************************************************)
COL_ProviderName == <<"P","r","o","v","i","d","e","r"," ","n","a","m","e">>

COL_Duration == <<"D","u","r","a","t","i","o","n">>

COL_TotalVisits == <<"T","o","t","a","l"," ","V","i","s","i","t","s">>

COL_BookingPage == <<"B","o","o","k","i","n","g"," ","p","a","g","e">>

COL_Provider == <<"P","r","o","v","i","d","e","r">>

COL_Name == <<"N","a","m","e">>

COL_Title == <<"T","i","t","l","e">>

COL_Manager == <<"M","a","n","a","g","e","r">>

COL_TotalHours == <<"T","o","t","a","l"," ","h","o","u","r","s">>

COL_TotalActivities == <<"T","o","t","a","l"," ","A","c","t","i","v","i","t","i","e","s">>

COL_Total == <<"T","o","t","a","l">>

COL_Other == <<"O","t","h","e","r">>

COL_GustoHours == <<"G","u","s","t","o"," ","H","o","u","r","s">>

COL_HoursWorked == <<"H","o","u","r","s"," ","W","o","r","k","e","d"," ","(","2","0"," ","m","i","n","/","v","i","s","i","t",")">>

ActivityColumns == <<<<"A","l","l"," ","a","c","t","i","v","i","t","i","e","s">>, <<"S","c","h","e","d","u","l","e","d">>, <<"C","o","m","p","l","e","t","e","d">>, <<"C","a","n","c","e","l","e","d">>, <<"N","o","-","s","h","o","w">>>>

Completed == <<"C","o","m","p","l","e","t","e","d">>

has_column(df, col) == IsIn(df.columns, col)

\* What a call leaves: a table, or the exception that ends it.
Returns(table) == [exc |-> "none", table |-> table]

Throws(e) == [exc |-> e, table |-> None]

Filter(rows, Keep(_)) == SelectSeq(rows, Keep)

SumOver(rows, Value(_)) ==
    LET partial[i \in 0..Len(rows)] ==
            IF i = 0 THEN 0 ELSE partial[i - 1] + Value(rows[i])
    IN partial[Len(rows)]

CountWhere(rows, Test(_)) == Len(SelectSeq(rows, Test))

\* The distinct keys of a groupby, in its (sorted) order.
RECURSIVE SortedTexts(_)
SortedTexts(S) ==
    IF S = {} THEN <<>>
    ELSE LET least == CHOOSE a \in S : \A b \in S : ~str_less(b, a)
         IN <<least>> \o SortedTexts(S \ {least})

GroupKeys(rows, Key(_)) == SortedTexts({Key(rows[i]) : i \in 1..Len(rows)})

\* sort_values(by, ascending=False): rows with equal values keep their order.
RECURSIVE InsertDescending(_, _)
InsertDescending(sorted, keyed) ==
    IF sorted = <<>> THEN <<keyed>>
    ELSE IF Head(sorted).key >= keyed.key
         THEN <<Head(sorted)>> \o InsertDescending(Tail(sorted), keyed)
         ELSE <<keyed>> \o sorted

RECURSIVE SortKeyedDescending(_)
SortKeyedDescending(keyed) ==
    IF keyed = <<>> THEN <<>>
    ELSE InsertDescending(SortKeyedDescending(SubSeq(keyed, 1, Len(keyed) - 1)),
                          keyed[Len(keyed)])

sort_values_descending(rows, Value(_)) ==
    LET keyed == [i \in 1..Len(rows) |-> [key |-> Value(rows[i]), row |-> rows[i]]]
        sorted == SortKeyedDescending(keyed)
    IN [i \in 1..Len(rows) |-> sorted[i].row]

\* round(num / den, 0) to the nearest integer, ties to even (num >= 0, den > 0).
RoundHalfEven(num, den) ==
    LET q == num \div den
        r == num % den
    IN IF 2 * r < den THEN q
       ELSE IF 2 * r > den THEN q + 1
       ELSE IF q % 2 = 0 THEN q ELSE q + 1

(***************************************************************************)
(* Section 1: visits per provider                                          *)
(***************************************************************************)
NotExcluded(rows, Name(_)) == Filter(rows, LAMBDA r : ~should_exclude_name(Name(r)))

\* groupby("Provider name").size(), then sort_values("Total Visits", ascending=False)
count_visits(rows) ==
    LET keys == GroupKeys(rows, LAMBDA r : r.ProviderName)
        counted == [k \in 1..Len(keys) |->
                       [ProviderName |-> keys[k],
                        TotalVisits |-> CountWhere(rows, LAMBDA r : r.ProviderName = keys[k])]]
    IN DataFrame(<<COL_ProviderName, COL_TotalVisits>>,
                 sort_values_descending(counted, LAMBDA r : r.TotalVisits))

\* app.py
app_get_doxy_visits(doxy) ==
    IF ~has_column(doxy, COL_ProviderName) THEN Throws("KeyError")
    ELSE Returns(count_visits(NotExcluded(doxy.rows, LAMBDA r : r.ProviderName)))

\* api/index.py: no exclusion filter
api_get_doxy_visits(doxy) ==
    IF ~has_column(doxy, COL_ProviderName) THEN Throws("KeyError")
    ELSE Returns(count_visits(doxy.rows))

(***************************************************************************)
(* Section 2: booking summary                                              *)
(***************************************************************************)
\* re.sub(r'\s*\([^)]*\)', '', text)
RECURSIVE sub_parenthesized(_)
sub_parenthesized(text) ==
    IF ~IsIn(text, "(") THEN text
    ELSE LET p == CHOOSE i \in 1..Len(text) : text[i] = "(" /\ \A j \in 1..(i-1) : text[j] # "("
         IN IF ~\E q \in (p+1)..Len(text) : text[q] = ")" THEN text
            ELSE LET q == CHOOSE i \in (p+1)..Len(text) :
                              text[i] = ")" /\ \A j \in (p+1)..(i-1) : text[j] # ")"
                 IN SubSeq(text, 1, RunStart(text, p - 1) - 1)
                      \o sub_parenthesized(SubSeq(text, q + 1, Len(text)))

strip_parenthesized(text) == str_strip(sub_parenthesized(text))

oncehub_table(rows) ==
    DataFrame(<<COL_Provider, COL_TotalActivities>> \o Tail(ActivityColumns),
              sort_values_descending(rows, LAMBDA r : r.activities[1]))

with_provider(rows) ==
    [i \in 1..Len(rows) |->
        [Provider |-> strip_parenthesized(rows[i].BookingPage),
         activities |-> rows[i].activities]]

has_activity_columns(df) == \A k \in 1..Len(ActivityColumns) : has_column(df, ActivityColumns[k])

\* app.py
app_get_oncehub_visits(booking) ==
    IF ~has_column(booking, COL_BookingPage) THEN Throws("KeyError")
    ELSE IF ~has_activity_columns(booking) THEN Throws("KeyError")
    ELSE Returns(oncehub_table(NotExcluded(with_provider(booking.rows), LAMBDA r : r.Provider)))

\* api/index.py: no exclusion filter
api_get_oncehub_visits(booking) ==
    IF ~has_column(booking, COL_BookingPage) THEN Throws("KeyError")
    ELSE IF ~has_activity_columns(booking) THEN Throws("KeyError")
    ELSE Returns(oncehub_table(with_provider(booking.rows)))

(***************************************************************************)
(* Section 3: visits by program                                            *)
(***************************************************************************)
\* The decoded account report: its text is an HTML table or delimited text,
\* or mojibake (garbled) when the wrong encoding decoded it without error.
Content(format, garbled, rows) ==
    [isNone |-> FALSE, format |-> format, garbled |-> garbled, rows |-> rows]

\* The <tr> rows with at least 7 cells whose first cell carries the
\* border-style:solid marker; a text with no such row gives none.
html_data_rows(content) ==
    IF content.format = "html" /\ ~content.garbled
    THEN Filter(content.rows, LAMBDA r : r.marked)
    ELSE <<>>

\* A slip: the empty case left to the pivot, which has no category column to
\* show.
EmptyPivotTable == DataFrame(<<COL_Provider, COL_Total>>, <<>>)

EmptyProgramTable == DataFrame(<<COL_Provider, TRT, HRT, COL_Other, COL_Total>>, <<>>)

CountCategory(rows, provider, category) ==
    CountWhere(rows, LAMBDA r : r.Provider = provider /\ get_category(r.EventType) = category)

\* pivot_table(index='Provider', columns='Category', aggfunc='size'), the
\* columns in the order TRT, HRT, Other, the Total, the sort.
pivot_by_category(rows) ==
    LET keys == GroupKeys(rows, LAMBDA r : r.Provider)
        present(c) == \E i \in 1..Len(rows) : get_category(rows[i].EventType) = c
        cols == <<COL_Provider>>
                  \o (IF present("TRT") THEN <<TRT>> ELSE <<>>)
                  \o (IF present("HRT") THEN <<HRT>> ELSE <<>>)
                  \o (IF present("Other") THEN <<COL_Other>> ELSE <<>>)
                  \o <<COL_Total>>
        counted == [k \in 1..Len(keys) |->
                       [Provider |-> keys[k],
                        TRT |-> CountCategory(rows, keys[k], "TRT"),
                        HRT |-> CountCategory(rows, keys[k], "HRT"),
                        Other |-> CountCategory(rows, keys[k], "Other"),
                        Total |-> CountWhere(rows, LAMBDA r : r.Provider = keys[k])]]
    IN DataFrame(cols, sort_values_descending(counted, LAMBDA r : r.Total))

\* A slip in the status test: the case of the status is ignored.
completed_rows_any_case(rows) ==
    Filter(rows, LAMBDA r : str_lower(r.Status) = str_lower(Completed))

completed_rows(rows) == Filter(rows, LAMBDA r : r.Status = Completed)

\* app.py: is_csv is the file name's extension.  Text that is not delimited
\* text, read as such, ends in an exception (the tokenizer fails, or the junk
\* table has no Provider column).
app_get_visits_by_program(content, is_csv) ==
    IF is_csv /\ (content.format # "csv" \/ content.garbled) THEN Throws("ParserError")
    ELSE LET df == IF is_csv THEN content.rows ELSE html_data_rows(content)
         IN IF df = <<>> THEN Returns(EmptyProgramTable)
            ELSE Returns(pivot_by_category(
                     NotExcluded(completed_rows(df), LAMBDA r : r.Provider)))

\* api/index.py: always parsed as HTML, no exclusion filter
api_get_visits_by_program(content) ==
    LET df == html_data_rows(content)
    IN IF df = <<>> THEN Returns(EmptyProgramTable)
       ELSE Returns(pivot_by_category(completed_rows(df)))

(***************************************************************************)
(* Section 4: payroll hours of the providers in the visit data             *)
(***************************************************************************)
rename_gusto_columns(cols) ==
    IF Len(cols) >= 4
    THEN <<COL_Name, COL_Title, COL_Manager, COL_TotalHours>> \o SubSeq(cols, 5, Len(cols))
    ELSE cols

\* astype(str).str.strip().str.replace('"', '')
clean_name(name) == str_remove_char(str_strip(name), "\"")

\* pd.to_numeric(errors='coerce') and the test > 0: a cell that is no number
\* becomes NaN, and NaN > 0 is false.
positive_hours(cell) == cell.num /\ cell.value > 0

filtered_gusto(gusto, doxy_providers) ==
    LET doxy_normalized == {gusto_normalize_name(doxy_providers[i]) :
                               i \in 1..Len(doxy_providers)}
        named == [i \in 1..Len(gusto.rows) |->
                     [Name |-> clean_name(gusto.rows[i].Name),
                      cell |-> gusto.rows[i].TotalHours]]
        in_doxy == Filter(named, LAMBDA r :
                              is_in_doxy(gusto_normalize_name(r.Name), doxy_normalized))
        positive == Filter(in_doxy, LAMBDA r : positive_hours(r.cell))
    IN [i \in 1..Len(positive) |->
           [Name |-> positive[i].Name, TotalHours |-> positive[i].cell.value]]

gusto_table(rows) ==
    DataFrame(<<COL_Name, COL_TotalHours>>,
              sort_values_descending(rows, LAMBDA r : r.TotalHours))

gusto_columns_present(gusto) ==
    /\ IsIn(rename_gusto_columns(gusto.columns), COL_Name)
    /\ IsIn(rename_gusto_columns(gusto.columns), COL_TotalHours)

\* app.py
app_get_gusto_hours(gusto, doxy_providers) ==
    IF ~gusto_columns_present(gusto) THEN Throws("KeyError")
    ELSE Returns(gusto_table(NotExcluded(filtered_gusto(gusto, doxy_providers),
                                         LAMBDA r : r.Name)))

\* api/index.py: no exclusion filter
api_get_gusto_hours(gusto, doxy_providers) ==
    IF ~gusto_columns_present(gusto) THEN Throws("KeyError")
    ELSE Returns(gusto_table(filtered_gusto(gusto, doxy_providers)))

(***************************************************************************)
(* Section 5: duration performance metrics                                 *)
(***************************************************************************)
\* 20 minutes, in sixtieths of a minute
\* A slip at the threshold: a visit of exactly 20 minutes counted as over it.
AtLeast20(row) == row.minutes.sixtieths >= 20 * 60

Over20(row) == row.minutes.sixtieths > 20 * 60

\* doxy_df['Duration_Minutes'] = doxy_df['Duration'].apply(parse_duration_to_minutes)
duration_minutes(rows) ==
    [i \in 1..Len(rows) |->
        [ProviderName |-> rows[i].ProviderName,
         minutes |-> parse_duration_to_minutes(rows[i].Duration)]]

\* The aggregates of one provider's visits, then the three roundings.
agg_metrics(provider, group) ==
    [Provider |-> provider,
     TotalVisits |-> Len(group),
     VisitsOver20 |-> CountWhere(group, Over20),
     \* percent, in tenths: round(over / total * 100, 1)
     PctOver20 |-> RoundHalfEven(CountWhere(group, Over20) * 1000, Len(group)),
     \* hours, in hundredths: round(sum of the minutes over 20 / 60, 2)
     HoursOver20 |-> RoundHalfEven(
         SumOver(Filter(group, Over20), LAMBDA r : r.minutes.sixtieths) * 100, 3600),
     \* minutes, in hundredths: round(mean, 2)
     AvgDuration |-> RoundHalfEven(
         SumOver(group, LAMBDA r : r.minutes.sixtieths) * 100, 60 * Len(group))]

groupby_agg(df_valid, keys) ==
    [k \in 1..Len(keys) |->
        agg_metrics(keys[k], Filter(df_valid, LAMBDA r : r.ProviderName = keys[k]))]

groupby_provider(df_valid) ==
    groupby_agg(df_valid, GroupKeys(df_valid, LAMBDA r : r.ProviderName))

MetricsColumns ==
    <<COL_Provider, COL_TotalVisits, <<"V","i","s","i","t","s"," ","O","v","e","r"," ","2","0"," ","M","i","n">>, <<"%"," ","O","v","e","r"," ","2","0"," ","M","i","n">>,
      <<"H","o","u","r","s"," ","o","n"," ","2","0","+"," ","M","i","n"," ","V","i","s","i","t","s">>, <<"A","v","g"," ","D","u","r","a","t","i","o","n"," ","(","m","i","n",")">>>>

metrics_of(parsed) ==
    IF \E i \in 1..Len(parsed) : parsed[i].minutes.exc # "none"
    THEN Throws((parsed[CHOOSE i \in 1..Len(parsed) : parsed[i].minutes.exc # "none"]).minutes.exc)
    ELSE Returns(DataFrame(MetricsColumns,
             sort_values_descending(
                 groupby_provider(Filter(parsed, LAMBDA r : ~r.minutes.isNone)),
                 LAMBDA r : r.TotalVisits)))

metrics_table(rows) == metrics_of(duration_minutes(rows))

\* app.py
app_get_doxy_performance_metrics(doxy) ==
    IF ~has_column(doxy, COL_ProviderName) \/ ~has_column(doxy, COL_Duration)
    THEN Throws("KeyError")
    ELSE metrics_table(NotExcluded(doxy.rows, LAMBDA r : r.ProviderName))

\* api/index.py: no exclusion filter
api_get_doxy_performance_metrics(doxy) ==
    IF ~has_column(doxy, COL_ProviderName) \/ ~has_column(doxy, COL_Duration)
    THEN Throws("KeyError")
    ELSE metrics_table(doxy.rows)

(***************************************************************************)
(* Section 6: hours worked at 20 minutes a visit                           *)
(***************************************************************************)
\* A slip in the join: the payroll filter's token matcher instead of equality.
merge_key_fuzzy(gusto_row, metrics_row) ==
    is_in_doxy(hours_normalize_name(gusto_row.Name),
               {hours_normalize_name(metrics_row.Provider)})

\* on='Name_norm': the two normalized names are the same text
merge_key_equal(gusto_row, metrics_row) ==
    hours_normalize_name(gusto_row.Name) = hours_normalize_name(metrics_row.Provider)

\* (Total Visits * 20 / 60).round(2), in hundredths of an hour
\* A slip in the assumed length of a visit.
hours_at_30_minutes(total_visits) == RoundHalfEven(total_visits * 30 * 100, 60)

hours_at_20_minutes(total_visits) == RoundHalfEven(total_visits * 20 * 100, 60)

\* pd.merge(gusto, metrics, on='Name_norm', how='inner'): every pair of a
\* payroll row and a metrics row with the same key, in the payroll rows' order.
RECURSIVE inner_merge(_, _)
inner_merge(gusto_rows, metrics_rows) ==
    IF gusto_rows = <<>> THEN <<>>
    ELSE LET g == Head(gusto_rows)
             matching == Filter(metrics_rows, LAMBDA m : merge_key_equal(g, m))
         IN [i \in 1..Len(matching) |->
                [Provider |-> g.Name,
                 GustoHours |-> g.TotalHours,
                 TotalVisits |-> matching[i].TotalVisits,
                 HoursWorked |-> hours_at_20_minutes(matching[i].TotalVisits)]]
              \o inner_merge(Tail(gusto_rows), metrics_rows)

get_hours_worked(gusto, metrics) ==
    Returns(DataFrame(<<COL_Provider, COL_GustoHours, COL_TotalVisits, COL_HoursWorked>>,
                      sort_values_descending(inner_merge(gusto.rows, metrics.rows),
                                             LAMBDA r : r.GustoHours)))

(***************************************************************************)
(* Reading the uploaded files                                              *)
(***************************************************************************)
\* An uploaded file: its name, what its bytes really are (format), and the
\* table they hold.  The payroll export's rows are those after the 8 skipped
\* lines.
Upload(filename, format, columns, rows) ==
    [supplied |-> TRUE, filename |-> filename, format |-> format,
     columns |-> columns, rows |-> rows]

is_excel(filename) ==
    \/ str_endswith(str_lower(filename), <<".","x","l","s">>)
    \/ str_endswith(str_lower(filename), <<".","x","l","s","x">>)

\* app.py read_file_as_dataframe: by extension, pd.read_excel with the HTML
\* table fallback, or pd.read_csv.
read_file_as_dataframe(file) ==
    IF is_excel(file.filename)
    THEN IF file.format \in {"xlsx", "html"}
         THEN Returns(DataFrame(file.columns, file.rows))
         ELSE Throws("ValueError")
    ELSE IF file.format = "csv"
         THEN Returns(DataFrame(file.columns, file.rows))
         ELSE Throws("ParserError")

\* api/index.py: pd.read_csv, whatever the file is
read_csv(file) ==
    IF file.format = "csv"
    THEN Returns(DataFrame(file.columns, file.rows))
    ELSE Throws("ParserError")

\* for encoding in ['utf-16', 'utf-8', 'latin-1', 'cp1252']: the first that
\* decodes the bytes without error.  UTF-16 decodes any text of an even
\* number of bytes (to mojibake when the text is not UTF-16); Latin-1 decodes
\* every byte string.
Encodings == <<"utf-16", "utf-8", "latin-1", "cp1252">>

decodes(bytes, encoding) ==
    CASE encoding = "utf-16" -> bytes \in {"utf-16", "utf-8-even", "latin-1-even"}
      [] encoding = "utf-8" -> bytes \in {"utf-8-even", "utf-8-odd"}
      [] encoding = "latin-1" -> TRUE
      [] OTHER -> bytes \notin {"utf-16"}

true_encoding(bytes) ==
    CASE bytes = "utf-16" -> "utf-16"
      [] bytes \in {"utf-8-even", "utf-8-odd"} -> "utf-8"
      [] OTHER -> "latin-1"

decode_account(file) ==
    IF \A k \in 1..Len(Encodings) : ~decodes(file.bytes, Encodings[k])
    THEN None
    ELSE LET k == CHOOSE i \in 1..Len(Encodings) :
                      /\ decodes(file.bytes, Encodings[i])
                      /\ \A j \in 1..(i-1) : ~decodes(file.bytes, Encodings[j])
         IN Content(file.format, Encodings[k] # true_encoding(file.bytes), file.rows)

\* The booking summary's provider column: the first column whose name
\* contains booking, page, provider or name; else the first column.
is_booking_column(col) ==
    \/ str_contains(str_lower(col), <<"b","o","o","k","i","n","g">>)
    \/ str_contains(str_lower(col), <<"p","a","g","e">>)
    \/ str_contains(str_lower(col), <<"p","r","o","v","i","d","e","r">>)
    \/ str_contains(str_lower(col), <<"n","a","m","e">>)

rename_booking_columns(cols) ==
    IF \E i \in 1..Len(cols) : is_booking_column(cols[i])
    THEN LET b == CHOOSE i \in 1..Len(cols) :
                      is_booking_column(cols[i]) /\ \A j \in 1..(i-1) : ~is_booking_column(cols[j])
         IN IF cols[b] # COL_BookingPage THEN [cols EXCEPT ![b] = COL_BookingPage] ELSE cols
    ELSE IF ~IsIn(cols, COL_BookingPage) THEN [cols EXCEPT ![1] = COL_BookingPage]
    ELSE cols

(***************************************************************************)
(* The uploads of one request, from bounded sets                           *)
(***************************************************************************)
MaxDoxyRows == 2

MaxGustoRows == 2

MaxAccountRows == 2

MaxBookingRows == 2

\* The sub-sequences of seq with at most n elements.
RECURSIVE SubSequences(_, _)
SubSequences(seq, n) ==
    IF seq = <<>> \/ n = 0 THEN {<<>>}
    ELSE SubSequences(Tail(seq), n)
           \cup {<<Head(seq)>> \o s : s \in SubSequences(Tail(seq), n - 1)}

Visit(name, duration) == [ProviderName |-> name, Duration |-> duration]

DoxyRows ==
    <<Visit(<<"J","a","n","e"," ","D","o","e"," ","N","P">>, <<"0","0",":","2","5",":","0","0">>),
      Visit(<<"J","a","n","e"," ","D","o","e"," ","N","P">>, <<"0","0",":","2","0",":","0","0">>),
      Visit(<<"J","a","n","e"," ","D","o","e"," ","M","D">>, <<"0","0",":","3","0",":","0","0">>),
      Visit(<<"D","a","n"," ","R","a","p","h","a","e","l">>, <<"0","0",":","4","5",":","0","0">>),
      Visit(<<"A","l"," ","R","o","e">>, NoData),
      Visit(<<"J","a","n","e"," ","D","o","e",","," ","N","P">>, <<"0","1",":","0","0",":","0","0">>)>>

Number(n) == [num |-> TRUE, value |-> n]

NotANumber == [num |-> FALSE, value |-> 0]

Payroll(name, hours) == [Name |-> name, TotalHours |-> hours]

GustoRows ==
    <<Payroll(<<"J","a","n","e"," ","Q"," ","D","o","e">>, Number(30)),
      Payroll(<<"J","a","n","e"," ","D","o","e">>, Number(40)),
      Payroll(<<"\"","J","a","n","e"," ","D","o","e"," ","N","P","\"">>, Number(40)),
      Payroll(<<"D","A","N","I","E","L"," ","R","A","P","H","A","E","L"," ","M","D">>, Number(35)),
      Payroll(<<"A","l"," ","R","o","e">>, Number(12)),
      Payroll(<<"J","a","n","e"," ","D","o","e"," ","M","D">>, NotANumber),
      Payroll(<<"J","a","n","e"," ","D","o","e">>, Number(0)),
      Payroll(<<"J","a","n","e"," ","D","o","e",","," ","N","P">>, Number(38)),
      Payroll(<<" "," ">>, Number(8))>>

Event(status, provider, event_type, marked) ==
    [Status |-> status, Provider |-> provider, EventType |-> event_type, marked |-> marked]

AccountRows ==
    <<Event(Completed, <<"J","a","n","e"," ","D","o","e">>, <<"H","R","T"," ","I","n","i","t","i","a","l">>, TRUE),
      Event(Completed, <<"J","a","n","e"," ","D","o","e">>, <<"T","R","T"," ","F","o","l","l","o","w","-","u","p">>, TRUE),
      Event(<<"C","a","n","c","e","l","e","d">>, <<"A","l"," ","R","o","e">>, <<"T","R","T"," ","F","o","l","l","o","w","-","u","p">>, TRUE),
      Event(Completed, <<"D","a","n"," ","R","a","p","h","a","e","l">>, <<"W","e","l","l","n","e","s","s"," ","C","h","e","c","k">>, TRUE),
      Event(Completed, <<"A","l"," ","R","o","e">>, <<"h","r","t">>, FALSE),
      Event(<<"c","o","m","p","l","e","t","e","d">>, <<"A","l"," ","R","o","e">>, <<"H","R","T"," ","I","n","i","t","i","a","l">>, TRUE)>>

Booking(page, activities) == [BookingPage |-> page, activities |-> activities]

BookingRows ==
    <<Booking(<<"J","a","n","e"," ","D","o","e"," ","(","T","R","T",")">>, <<5, 1, 3, 1, 0>>),
      Booking(<<"D","a","n"," ","(","D","a","n","i","e","l",")"," ","R","a","p","h","a","e","l">>, <<9, 2, 6, 1, 0>>),
      Booking(<<"A","l"," ","R","o","e">>, <<7, 0, 7, 0, 0>>)>>

DoxyColumns(has_provider, has_duration) ==
    <<IF has_provider THEN COL_ProviderName ELSE <<"C","l","i","n","i","c","i","a","n">>>>
      \o <<IF has_duration THEN COL_Duration ELSE <<"L","e","n","g","t","h">>>>

GustoColumns(wide) ==
    IF wide THEN <<<<"E","m","p","l","o","y","e","e">>, <<"J","o","b"," ","t","i","t","l","e">>, <<"M","a","n","a","g","e","r">>, <<"H","o","u","r","s">>, <<"D","e","p","a","r","t","m","e","n","t">>>>
    ELSE <<<<"E","m","p","l","o","y","e","e">>, <<"H","o","u","r","s">>>>

BookingColumns(header, has_activities) ==
    <<header>> \o (IF has_activities THEN ActivityColumns ELSE <<<<"C","o","u","n","t">>>>)

BookingHeaders == {COL_BookingPage, <<"P","r","o","v","i","d","e","r">>, <<"L","a","b","e","l">>}

\* (file name, real format): delimited text; an HTML table named .xls;
\* bytes that are no table at all.
ReadableKinds == {<<<<"r","e","p","o","r","t",".","c","s","v">>, "csv">>, <<<<"R","e","p","o","r","t",".","X","L","S">>, "html">>}

UnreadableKind == <<<<"r","e","p","o","r","t",".","x","l","s">>, "junk">>

SampleDoxy ==
    Upload(<<"r","e","p","o","r","t",".","c","s","v">>, "csv", DoxyColumns(TRUE, TRUE), <<DoxyRows[1], DoxyRows[4]>>)

SampleGusto ==
    Upload(<<"r","e","p","o","r","t",".","c","s","v">>, "csv", GustoColumns(TRUE), <<GustoRows[2], GustoRows[4]>>)

AccountUpload(filename, bytes, format, rows) ==
    [supplied |-> TRUE, filename |-> filename, bytes |-> bytes, format |-> format,
     rows |-> rows]

SampleAccount ==
    AccountUpload(<<"a","c","c","o","u","n","t",".","x","l","s">>, "utf-16", "html", <<AccountRows[2], AccountRows[4]>>)

SampleBooking ==
    Upload(<<"r","e","p","o","r","t",".","c","s","v">>, "csv", BookingColumns(COL_BookingPage, TRUE),
           <<BookingRows[1], BookingRows[2]>>)

DoxyStructures ==
    {Upload(k[1], k[2], DoxyColumns(p, d), SampleDoxy.rows) :
        k \in ReadableKinds, p \in BOOLEAN, d \in BOOLEAN}
      \cup {Upload(UnreadableKind[1], UnreadableKind[2], <<>>, <<>>)}

GustoStructures ==
    {Upload(k[1], k[2], GustoColumns(w), SampleGusto.rows) :
        k \in ReadableKinds, w \in BOOLEAN}
      \cup {Upload(UnreadableKind[1], UnreadableKind[2], <<>>, <<>>)}

BookingStructures ==
    {Upload(k[1], k[2], BookingColumns(h, a), SampleBooking.rows) :
        k \in ReadableKinds, h \in BookingHeaders, a \in BOOLEAN}
      \cup {Upload(UnreadableKind[1], UnreadableKind[2], <<>>, <<>>), NoFile}

\* Three visits of 25 minutes by one provider.
ExampleVisit == Visit(<<"J","a","n","e"," ","D","o","e",","," ","N","P">>, <<"0","0",":","2","5",":","0","0">>)

ExampleDoxy ==
    Upload(<<"r","e","p","o","r","t",".","c","s","v">>, "csv", DoxyColumns(TRUE, TRUE),
           <<ExampleVisit, ExampleVisit, ExampleVisit>>)

\* Three visits of one provider, of 25, 20 and 30 minutes, and one visit of 10
\* minutes of a provider whose name sorts first.
MixedDoxy ==
    Upload(<<"r","e","p","o","r","t",".","c","s","v">>, "csv", DoxyColumns(TRUE, TRUE),
           <<DoxyRows[1], DoxyRows[2], Visit(DoxyRows[1].ProviderName, <<"0","0",":","3","0",":","0","0">>),
             Visit(DoxyRows[5].ProviderName, <<"0","0",":","1","0",":","0","0">>)>>)

DoxyData ==
    {Upload(<<"r","e","p","o","r","t",".","c","s","v">>, "csv", DoxyColumns(TRUE, TRUE), rows) :
        rows \in SubSequences(DoxyRows, MaxDoxyRows)}
      \cup {ExampleDoxy, MixedDoxy}

GustoData ==
    {Upload(<<"r","e","p","o","r","t",".","c","s","v">>, "csv", GustoColumns(TRUE), rows) :
        rows \in SubSequences(GustoRows, MaxGustoRows)}

\* Delimited text: two providers, one of them with two Completed rows and
\* the other with one and a row of another status.
PivotAccount ==
    AccountUpload(<<"A","c","c","o","u","n","t",".","C","S","V">>, "utf-8-odd", "csv",
                  <<AccountRows[5], AccountRows[1], AccountRows[2], AccountRows[6]>>)

AccountData ==
    {AccountUpload(f, b, x, rows) :
        f \in {<<"a","c","c","o","u","n","t",".","x","l","s">>, <<"A","c","c","o","u","n","t",".","C","S","V">>},
        b \in {"utf-16", "utf-8-even", "utf-8-odd", "latin-1-odd"},
        x \in {"html", "csv"},
        rows \in SubSequences(AccountRows, MaxAccountRows)}
      \cup {PivotAccount}

BookingData ==
    {Upload(<<"r","e","p","o","r","t",".","c","s","v">>, "csv", BookingColumns(COL_BookingPage, TRUE), rows) :
        rows \in SubSequences(BookingRows, MaxBookingRows)}
      \cup {NoFile}

\* One request: either the structure of the visit log, the payroll export and
\* the booking summary varies, or the rows of the visit log and the payroll
\* export, or the account report, or the rows of the booking summary; the
\* other uploads are the samples.
Init ==
    /\ fn = "none" /\ fn_arg = <<>> /\ fn_out = <<>>
    /\ entry \in {"app", "api"}
    /\ pc = "index"
    /\ \/ /\ doxy_file \in DoxyStructures
          /\ gusto_file \in GustoStructures
          /\ booking_file \in BookingStructures
          /\ account_file = SampleAccount
       \/ /\ doxy_file \in DoxyData
          /\ gusto_file \in GustoData
          /\ booking_file = SampleBooking
          /\ account_file = SampleAccount
       \/ /\ doxy_file = SampleDoxy
          /\ gusto_file = SampleGusto
          /\ booking_file = SampleBooking
          /\ account_file \in AccountData
       \/ /\ doxy_file = SampleDoxy
          /\ gusto_file = SampleGusto
          /\ booking_file \in BookingData
          /\ account_file = SampleAccount
    /\ errors = <<>>
    /\ doxy_df = None /\ account_content = None /\ gusto_df = None /\ booking_df = None
    /\ doxy_visits = None /\ oncehub_visits = None /\ visits_by_program = None
    /\ gusto_hours = None /\ performance_metrics = None /\ hours_worked = None
    /\ stats = NoStats /\ raised = "none" /\ ran = <<>> /\ output = <<>>

(***************************************************************************)
(* generate_report, step by step (entry = "app": app.py; "api":            *)
(* api/index.py)                                                           *)
(***************************************************************************)
Readers == {"read_doxy", "read_account", "read_gusto", "read_booking"}

Aggregators ==
    {"get_doxy_visits", "get_oncehub_visits", "get_visits_by_program",
     "get_gusto_hours", "get_doxy_performance_metrics", "get_hours_worked"}

\* The statement at pc is done and did not raise.
Goto(next, step) ==
    /\ pc' = next
    /\ ran' = Append(ran, step)
    /\ raised' = raised

\* An exception leaves generate_report; index() reports it.
Fail(e, step) ==
    /\ pc' = "failed"
    /\ ran' = Append(ran, step)
    /\ raised' = e

\* index(): the required uploads must be there; app.py takes the booking
\* summary as optional, api/index.py requires all four.
Index ==
    /\ pc = "index"
    /\ IF entry = "api" /\ ~booking_file.supplied
       THEN pc' = "failed" /\ raised' = "missing file"
       ELSE pc' = "read_doxy" /\ raised' = raised
    /\ UNCHANGED <<fvars, entry, doxy_file, account_file, gusto_file, booking_file,
                   errors, doxy_df, account_content, gusto_df, booking_df,
                   doxy_visits, oncehub_visits, visits_by_program, gusto_hours,
                   performance_metrics, hours_worked, stats, ran, output>>

MissingColumns(df) ==
    (IF ~has_column(df, COL_ProviderName)
        THEN <<"Doxy Report missing 'Provider name' column">> ELSE <<>>)
      \o (IF ~has_column(df, COL_Duration)
             THEN <<"Doxy Report missing 'Duration' column">> ELSE <<>>)

ReadDoxy ==
    /\ pc = "read_doxy"
    /\ IF entry = "app"
       THEN LET r == read_file_as_dataframe(doxy_file)
            IN /\ doxy_df' = r.table
               /\ errors' = IF r.exc = "none" THEN errors \o MissingColumns(r.table)
                            ELSE Append(errors, "Error reading Doxy Report")
               /\ Goto("read_account", "read_doxy")
       ELSE LET r == read_csv(doxy_file)
            IN /\ doxy_df' = r.table
               /\ errors' = errors
               /\ IF r.exc = "none" THEN Goto("read_account", "read_doxy")
                  ELSE Fail(r.exc, "read_doxy")
    /\ UNCHANGED <<fvars, entry, doxy_file, account_file, gusto_file, booking_file,
                   account_content, gusto_df, booking_df,
                   doxy_visits, oncehub_visits, visits_by_program, gusto_hours,
                   performance_metrics, hours_worked, stats, output>>

ReadAccount ==
    /\ pc = "read_account"
    /\ account_content' = decode_account(account_file)
    /\ IF account_content'.isNone
       THEN IF entry = "app"
            THEN /\ errors' = Append(errors, "Could not decode Account Detail Report")
                 /\ Goto("read_gusto", "read_account")
            ELSE /\ errors' = errors
                 /\ Fail("ValueError", "read_account")
       ELSE /\ errors' = errors
            /\ Goto("read_gusto", "read_account")
    /\ UNCHANGED <<fvars, entry, doxy_file, account_file, gusto_file, booking_file,
                   doxy_df, gusto_df, booking_df,
                   doxy_visits, oncehub_visits, visits_by_program, gusto_hours,
                   performance_metrics, hours_worked, stats, output>>

ReadGusto ==
    /\ pc = "read_gusto"
    /\ IF entry = "app"
       THEN LET r == read_file_as_dataframe(gusto_file)
            IN /\ gusto_df' = r.table
               /\ errors' = IF r.exc = "none" THEN errors
                            ELSE Append(errors, "Error reading Gusto file")
               /\ Goto("read_booking", "read_gusto")
       ELSE LET r == read_csv(gusto_file)
            IN /\ gusto_df' = r.table
               /\ errors' = errors
               /\ IF r.exc = "none" THEN Goto("read_booking", "read_gusto")
                  ELSE Fail(r.exc, "read_gusto")
    /\ UNCHANGED <<fvars, entry, doxy_file, account_file, gusto_file, booking_file,
                   doxy_df, account_content, booking_df,
                   doxy_visits, oncehub_visits, visits_by_program, gusto_hours,
                   performance_metrics, hours_worked, stats, output>>

\* app.py: optional, any exception is swallowed and leaves booking_df None;
\* api/index.py: read like the others.
ReadBooking ==
    /\ pc = "read_booking"
    /\ IF entry = "app"
       THEN /\ IF booking_file.supplied
               THEN LET r == read_file_as_dataframe(booking_file)
                    IN booking_df' =
                         IF r.exc # "none" \/ r.table.columns = <<>> THEN None
                         ELSE DataFrame(rename_booking_columns(r.table.columns), r.table.rows)
               ELSE booking_df' = None
            /\ Goto("check_errors", "read_booking")
       ELSE LET r == read_csv(booking_file)
            IN /\ booking_df' = r.table
               /\ IF r.exc = "none" THEN Goto("get_doxy_visits", "read_booking")
                  ELSE Fail(r.exc, "read_booking")
    /\ UNCHANGED <<fvars, entry, doxy_file, account_file, gusto_file, booking_file,
                   errors, doxy_df, account_content, gusto_df,
                   doxy_visits, oncehub_visits, visits_by_program, gusto_hours,
                   performance_metrics, hours_worked, stats, output>>

\* app.py: if errors: raise ValueError("\n".join(errors))
CheckErrors ==
    /\ pc = "check_errors"
    /\ IF errors # <<>> THEN Fail("ValueError", "check_errors")
       ELSE Goto("get_doxy_visits", "check_errors")
    /\ UNCHANGED <<fvars, entry, doxy_file, account_file, gusto_file, booking_file,
                   errors, doxy_df, account_content, gusto_df, booking_df,
                   doxy_visits, oncehub_visits, visits_by_program, gusto_hours,
                   performance_metrics, hours_worked, stats, output>>

\* An aggregator's call: on to the next statement, or out with its exception.
Call(r, next, step) ==
    IF r.exc = "none" THEN Goto(next, step) ELSE Fail(r.exc, step)

GetDoxyVisits ==
    /\ pc = "get_doxy_visits"
    /\ LET r == IF entry = "app" THEN app_get_doxy_visits(doxy_df)
                ELSE api_get_doxy_visits(doxy_df)
       IN /\ doxy_visits' = r.table
          /\ Call(r, "get_oncehub_visits", "get_doxy_visits")
    /\ UNCHANGED <<fvars, entry, doxy_file, account_file, gusto_file, booking_file,
                   errors, doxy_df, account_content, gusto_df, booking_df,
                   oncehub_visits, visits_by_program, gusto_hours,
                   performance_metrics, hours_worked, stats, output>>

\* app.py: get_oncehub_visits(booking_df) if booking_df is not None else None
GetOncehubVisits ==
    /\ pc = "get_oncehub_visits"
    /\ IF entry = "app" /\ booking_df.isNone
       THEN /\ oncehub_visits' = None
            /\ pc' = "get_visits_by_program"
            /\ UNCHANGED <<ran, raised>>
       ELSE LET r == IF entry = "app" THEN app_get_oncehub_visits(booking_df)
                     ELSE api_get_oncehub_visits(booking_df)
            IN /\ oncehub_visits' = r.table
               /\ Call(r, "get_visits_by_program", "get_oncehub_visits")
    /\ UNCHANGED <<fvars, entry, doxy_file, account_file, gusto_file, booking_file,
                   errors, doxy_df, account_content, gusto_df, booking_df,
                   doxy_visits, visits_by_program, gusto_hours,
                   performance_metrics, hours_worked, stats, output>>

\* app.py: account_is_csv = account_file.filename.lower().endswith('.csv')
account_is_csv(file) == str_endswith(str_lower(file.filename), <<".","c","s","v">>)

GetVisitsByProgram ==
    /\ pc = "get_visits_by_program"
    /\ LET r == IF entry = "app"
                THEN app_get_visits_by_program(account_content, account_is_csv(account_file))
                ELSE api_get_visits_by_program(account_content)
       IN /\ visits_by_program' = r.table
          /\ Call(r, "get_gusto_hours", "get_visits_by_program")
    /\ UNCHANGED <<fvars, entry, doxy_file, account_file, gusto_file, booking_file,
                   errors, doxy_df, account_content, gusto_df, booking_df,
                   doxy_visits, oncehub_visits, gusto_hours,
                   performance_metrics, hours_worked, stats, output>>

\* doxy_visits['Provider name'].tolist()
doxy_providers(visits) == [i \in 1..Len(visits.rows) |-> visits.rows[i].ProviderName]

GetGustoHours ==
    /\ pc = "get_gusto_hours"
    /\ LET r == IF entry = "app"
                THEN app_get_gusto_hours(gusto_df, doxy_providers(doxy_visits))
                ELSE api_get_gusto_hours(gusto_df, doxy_providers(doxy_visits))
       IN /\ gusto_hours' = r.table
          /\ Call(r, "get_doxy_performance_metrics", "get_gusto_hours")
    /\ UNCHANGED <<fvars, entry, doxy_file, account_file, gusto_file, booking_file,
                   errors, doxy_df, account_content, gusto_df, booking_df,
                   doxy_visits, oncehub_visits, visits_by_program,
                   performance_metrics, hours_worked, stats, output>>

GetPerformanceMetrics ==
    /\ pc = "get_doxy_performance_metrics"
    /\ LET r == IF entry = "app" THEN app_get_doxy_performance_metrics(doxy_df)
                ELSE api_get_doxy_performance_metrics(doxy_df)
       IN /\ performance_metrics' = r.table
          /\ Call(r, "get_hours_worked", "get_doxy_performance_metrics")
    /\ UNCHANGED <<fvars, entry, doxy_file, account_file, gusto_file, booking_file,
                   errors, doxy_df, account_content, gusto_df, booking_df,
                   doxy_visits, oncehub_visits, visits_by_program, gusto_hours,
                   hours_worked, stats, output>>

GetHoursWorked ==
    /\ pc = "get_hours_worked"
    /\ LET r == get_hours_worked(gusto_hours, performance_metrics)
       IN /\ hours_worked' = r.table
          /\ Call(r, IF entry = "app" THEN "stats" ELSE "write", "get_hours_worked")
    /\ UNCHANGED <<fvars, entry, doxy_file, account_file, gusto_file, booking_file,
                   errors, doxy_df, account_content, gusto_df, booking_df,
                   doxy_visits, oncehub_visits, visits_by_program, gusto_hours,
                   performance_metrics, stats, output>>

\* app.py: the stats that accompany the workbook
ComputeStats ==
    /\ pc = "stats"
    /\ stats' = [providers |-> Len(doxy_visits.rows),
                 total_visits |-> SumOver(doxy_visits.rows, LAMBDA r : r.TotalVisits),
                 sheets |-> 6]
    /\ pc' = "write"
    /\ UNCHANGED <<fvars, entry, doxy_file, account_file, gusto_file, booking_file,
                   errors, doxy_df, account_content, gusto_df, booking_df,
                   doxy_visits, oncehub_visits, visits_by_program, gusto_hours,
                   performance_metrics, hours_worked, raised, ran, output>>

\* The sheets written, in order; app.py leaves OnceHub Visits out when
\* oncehub_visits is None.
WriteWorkbook ==
    /\ pc = "write"
    /\ output' = <<"Doxy Visits">>
                   \o (IF entry = "app" /\ oncehub_visits.isNone THEN <<>>
                       ELSE <<"OnceHub Visits">>)
                   \o <<"Visits by Program", "Gusto Hours", "Doxy Performance Metrics",
                        "Hours Worked">>
    /\ pc' = "done"
    /\ UNCHANGED <<fvars, entry, doxy_file, account_file, gusto_file, booking_file,
                   errors, doxy_df, account_content, gusto_df, booking_df,
                   doxy_visits, oncehub_visits, visits_by_program, gusto_hours,
                   performance_metrics, hours_worked, stats, raised, ran>>

Next ==
    \/ Index
    \/ ReadDoxy
    \/ ReadAccount
    \/ ReadGusto
    \/ ReadBooking
    \/ CheckErrors
    \/ GetDoxyVisits
    \/ GetOncehubVisits
    \/ GetVisitsByProgram
    \/ GetGustoHours
    \/ GetPerformanceMetrics
    \/ GetHoursWorked
    \/ ComputeStats
    \/ WriteWorkbook

Spec == Init /\ [][Next]_vars


(***************************************************************************)
(* Properties of one request                                               *)
(***************************************************************************)
\* The aggregators have all returned.
Aggregated == pc \in {"stats", "write", "done"}

\* generate_report is over, with the workbook or with an exception.
Over == pc \in {"done", "failed"}

LastStep == IF ran = <<>> THEN "none" ELSE ran[Len(ran)]

\* C1: no row of a table that carries names (Doxy Visits, OnceHub Visits,
\* Visits by Program, Gusto Hours, Doxy Performance Metrics, Hours Worked) has
\* a name containing a denylist substring, whichever entry point produced the
\* table.
C1_ExclusionFilter ==
    /\ \A i \in 1..Len(doxy_visits.rows) :
          ~should_exclude_name(doxy_visits.rows[i].ProviderName)
    /\ \A i \in 1..Len(oncehub_visits.rows) :
          ~should_exclude_name(oncehub_visits.rows[i].Provider)
    /\ \A i \in 1..Len(visits_by_program.rows) :
          ~should_exclude_name(visits_by_program.rows[i].Provider)
    /\ \A i \in 1..Len(gusto_hours.rows) :
          ~should_exclude_name(gusto_hours.rows[i].Name)
    /\ \A i \in 1..Len(performance_metrics.rows) :
          ~should_exclude_name(performance_metrics.rows[i].Provider)
    /\ \A i \in 1..Len(hours_worked.rows) :
          ~should_exclude_name(hours_worked.rows[i].Provider)

\* The visits of the log that have a parsable duration.
HasParsableVisit(name_norm) ==
    \E i \in 1..Len(doxy_df.rows) :
       /\ ~parse_duration_to_minutes(doxy_df.rows[i].Duration).isNone
       /\ hours_normalize_name(doxy_df.rows[i].ProviderName) = name_norm

\* C4: once the reconciler has run, every row of Hours Worked pairs a row of
\* Gusto Hours with a row of Doxy Performance Metrics whose normalized names
\* are the same text; a payroll row whose name has no visit with a parsable
\* duration is in no row of Hours Worked; and the reconciler never raises.
C4_InnerJoin ==
    /\ Aggregated =>
          /\ \A i \in 1..Len(hours_worked.rows) :
                \E g \in 1..Len(gusto_hours.rows), m \in 1..Len(performance_metrics.rows) :
                   /\ hours_worked.rows[i].Provider = gusto_hours.rows[g].Name
                   /\ hours_worked.rows[i].GustoHours = gusto_hours.rows[g].TotalHours
                   /\ hours_worked.rows[i].TotalVisits = performance_metrics.rows[m].TotalVisits
                   /\ hours_normalize_name(gusto_hours.rows[g].Name)
                        = hours_normalize_name(performance_metrics.rows[m].Provider)
          /\ \A g \in 1..Len(gusto_hours.rows) :
                ~HasParsableVisit(hours_normalize_name(gusto_hours.rows[g].Name))
                   => \A i \in 1..Len(hours_worked.rows) :
                         hours_worked.rows[i].Provider # gusto_hours.rows[g].Name
    /\ ~(pc = "failed" /\ LastStep = "get_hours_worked")

\* A workbook whose Hours Worked has a row, while a row of Gusto Hours that
\* only the fuzzy matcher pairs with a row of the metrics was dropped.
C4_Witness ==
    /\ pc = "done"
    /\ hours_worked.rows # <<>>
    /\ \E g \in 1..Len(gusto_hours.rows), m \in 1..Len(performance_metrics.rows) :
          /\ is_in_doxy(hours_normalize_name(gusto_hours.rows[g].Name),
                        {hours_normalize_name(performance_metrics.rows[m].Provider)})
          /\ hours_normalize_name(gusto_hours.rows[g].Name)
               # hours_normalize_name(performance_metrics.rows[m].Provider)
          /\ \A i \in 1..Len(hours_worked.rows) :
                hours_worked.rows[i].Provider # gusto_hours.rows[g].Name

\* C5: a derived table has at most as many rows as its source; Hours Worked
\* has at most as many rows as Gusto Hours and at most as many as Doxy
\* Performance Metrics.
C5_RowCount ==
    Aggregated =>
       /\ Len(doxy_visits.rows) <= Len(doxy_df.rows)
       /\ Len(performance_metrics.rows) <= Len(doxy_df.rows)
       /\ Len(gusto_hours.rows) <= Len(gusto_df.rows)
       /\ Len(hours_worked.rows) <= Len(gusto_hours.rows)
       /\ Len(hours_worked.rows) <= Len(performance_metrics.rows)

\* The structural problems of the required uploads, as app.py reads them.
DoxyProblems ==
    IF read_file_as_dataframe(doxy_file).exc # "none" THEN 1
    ELSE Len(MissingColumns(read_file_as_dataframe(doxy_file).table))

AccountProblems == IF decode_account(account_file).isNone THEN 1 ELSE 0

GustoProblems ==
    IF read_file_as_dataframe(gusto_file).exc # "none" THEN 1
    ELSE IF ~gusto_columns_present(read_file_as_dataframe(gusto_file).table) THEN 1
    ELSE 0

\* C6: when a required upload has a structural problem, app.py's
\* generate_report ends with the one ValueError raised after the reads, and
\* its message has one line for every problem of every upload.
C6_ErrorAccumulation ==
    (entry = "app" /\ Over /\ DoxyProblems + AccountProblems + GustoProblems > 0) =>
       /\ pc = "failed"
       /\ raised = "ValueError"
       /\ LastStep = "check_errors"
       /\ Len(errors) = DoxyProblems + AccountProblems + GustoProblems

\* A fatal condition of a required upload, as the entry point reads it.
FatalCondition ==
    IF entry = "app" THEN DoxyProblems + AccountProblems + GustoProblems > 0
    ELSE \/ read_csv(doxy_file).exc # "none"
         \/ MissingColumns(read_csv(doxy_file).table) # <<>>
         \/ decode_account(account_file).isNone
         \/ read_csv(gusto_file).exc # "none"
         \/ ~gusto_columns_present(read_csv(gusto_file).table)

Before(first, second) ==
    \A j \in 1..Len(ran) :
       ran[j] = second => \E i \in 1..(j - 1) : ran[i] = first

\* C7: an aggregator starts only after the four reads; with a fatal condition
\* in a required upload no aggregator starts at all; the reconciler starts
\* only after the payroll filter and the performance metrics.
C7_PhaseOrdering ==
    /\ \A a \in Aggregators : \A r \in Readers : Before(r, a)
    /\ FatalCondition => \A j \in 1..Len(ran) : ran[j] \notin Aggregators
    /\ Before("get_gusto_hours", "get_hours_worked")
    /\ Before("get_doxy_performance_metrics", "get_hours_worked")

\* Something is wrong with the booking summary: it is not supplied, cannot be
\* read, or lacks an activity column.
BookingProblem ==
    \/ ~booking_file.supplied
    \/ read_file_as_dataframe(booking_file).exc # "none"
    \/ ~has_activity_columns(read_file_as_dataframe(booking_file).table)

\* C8: in app.py no step that handles the booking summary ends the request
\* with an exception, and with a problem in the booking summary the workbook
\* has the five other sheets and no OnceHub Visits.
C8_OptionalBooking ==
    entry = "app" =>
       /\ pc = "failed" => LastStep \notin {"read_booking", "get_oncehub_visits"}
       /\ (pc = "done" /\ BookingProblem) =>
             output = <<"Doxy Visits", "Visits by Program", "Gusto Hours",
                        "Doxy Performance Metrics", "Hours Worked">>


(***************************************************************************)
(* Properties of the matcher, under SpecFn                                 *)
(***************************************************************************)
\* C11: the matcher's decision for (a, b) is its decision for (b, a), for
\* every pair of normalized identities, the empty one and those with repeated
\* tokens included.
C11_MatchSymmetric ==
    (fn = "is_in_doxy" /\ fn_out # <<>>) =>
       fn_out[1] = is_in_doxy(fn_arg[2], {fn_arg[1]})

\* A match of two different identities that share two tokens, one of them
\* with a repeated token.
C11_Witness ==
    /\ fn = "is_in_doxy" /\ fn_out = <<TRUE>>
    /\ Len(fn_arg[1]) # Len(fn_arg[2])
    /\ Len(str_split(fn_arg[1])) > Cardinality(Tokens(fn_arg[1]))


(***************************************************************************)
(* Properties of the program pivot                                         *)
(***************************************************************************)
Ran(step) == \E i \in 1..Len(ran) : ran[i] = step

\* The rows that get_visits_by_program extracts from the account report:
\* app.py reads delimited text when the file is named .csv, else the marked
\* rows of the markup; api/index.py always reads markup.  Extracted is false
\* when reading the text as delimited text raises.
ReadsDelimited == entry = "app" /\ account_is_csv(account_file)

Extracted ==
    ReadsDelimited => (account_content.format = "csv" /\ ~account_content.garbled)

ExtractedRows ==
    IF ReadsDelimited THEN account_content.rows ELSE html_data_rows(account_content)

C13_HoursWorkedValue ==
    Aggregated =>
       /\ \A i \in 1..Len(hours_worked.rows) :
             /\ \E m \in 1..Len(performance_metrics.rows) :
                   /\ hours_normalize_name(performance_metrics.rows[m].Provider)
                        = hours_normalize_name(hours_worked.rows[i].Provider)
                   /\ performance_metrics.rows[m].TotalVisits = hours_worked.rows[i].TotalVisits
             /\ 3 * hours_worked.rows[i].HoursWorked - 100 * hours_worked.rows[i].TotalVisits
                  \in {-1, 0, 1}
       /\ doxy_file = ExampleDoxy =>
             \A i \in 1..Len(hours_worked.rows) :
                hours_worked.rows[i].TotalVisits = 3 /\ hours_worked.rows[i].HoursWorked = 100

\* The three visits of 25 minutes, matched to a payroll row.
C13_Witness ==
    /\ pc = "done"
    /\ doxy_file = ExampleDoxy
    /\ \E i \in 1..Len(hours_worked.rows) :
          /\ hours_worked.rows[i].TotalVisits = 3
          /\ hours_worked.rows[i].HoursWorked = 100


(***************************************************************************)
(* Properties of the account report's parsing and of the statistics       *)
(***************************************************************************)
\* C14: the Visits by Program table of app.py is the one the same bytes give
\* under the other file extension (.csv against .xls): the parsing strategy
\* follows the content, not the name.
C14_ContentSniffing ==
    (entry = "app" /\ Ran("get_visits_by_program")) =>
       visits_by_program
         = app_get_visits_by_program(account_content, ~account_is_csv(account_file)).table

\* C15: the statistics of app.py agree with the workbook: providers is the
\* number of rows of Doxy Visits, total_visits the sum of its Total Visits,
\* sheets the number of sheets written (6 with OnceHub Visits, 5 without).
C15_StatsAgree ==
    (entry = "app" /\ pc = "done") =>
       /\ stats.providers = Len(doxy_visits.rows)
       /\ stats.total_visits = SumOver(doxy_visits.rows, LAMBDA r : r.TotalVisits)
       /\ stats.sheets = Len(output)
       /\ Len(output) = IF oncehub_visits.isNone THEN 5 ELSE 6


(***************************************************************************)
(* Properties of the payroll filter                                        *)
(***************************************************************************)
\* The three conditions of the payroll filter on one row of the payroll
\* export, against the providers of Doxy Visits.
MatchesProvider(n) ==
    /\ n # <<>>
    /\ \E p \in 1..Len(doxy_visits.rows) :
          \/ n = gusto_normalize_name(doxy_visits.rows[p].ProviderName)
          \/ Cardinality(Tokens(n)
                           \cap Tokens(gusto_normalize_name(doxy_visits.rows[p].ProviderName))) >= 2

ToBeKept(row) ==
    /\ MatchesProvider(gusto_normalize_name(clean_name(row.Name)))
    /\ row.TotalHours.num /\ row.TotalHours.value > 0
    /\ ~should_exclude_name(clean_name(row.Name))

InGustoHours(row) ==
    \E j \in 1..Len(gusto_hours.rows) :
       /\ gusto_hours.rows[j].Name = clean_name(row.Name)
       /\ gusto_hours.rows[j].TotalHours = row.TotalHours.value

ParsableOf(p) ==
    SelectSeq(doxy_df.rows, LAMBDA r :
        r.ProviderName = p /\ ~parse_duration_to_minutes(r.Duration).isNone)

LongOf(p) ==
    SelectSeq(doxy_df.rows, LAMBDA r :
        /\ r.ProviderName = p
        /\ ~parse_duration_to_minutes(r.Duration).isNone
        /\ parse_duration_to_minutes(r.Duration).sixtieths > 1200)

MetricsRowsOf(p) == SelectSeq(performance_metrics.rows, LAMBDA m : m.Provider = p)

\* The counts of a row of the metrics, for provider p.
CountsOk(m, p) ==
    /\ m.TotalVisits = Len(ParsableOf(p))
    /\ m.VisitsOver20 = Len(LongOf(p))
    /\ m.VisitsOver20 <= m.TotalVisits
    /\ \E v \in 1..Len(doxy_visits.rows) :
          doxy_visits.rows[v].ProviderName = p /\ m.TotalVisits <= doxy_visits.rows[v].TotalVisits

\* The percentage of a row, kept in tenths: the tenth nearest to
\* 100 * over / total, within [0, 100].
PercentRounded(m) ==
    /\ m.PctOver20 >= 0 /\ m.PctOver20 <= 1000
    /\ 2 * (m.TotalVisits * m.PctOver20 - 1000 * m.VisitsOver20) <= m.TotalVisits
    /\ 2 * (1000 * m.VisitsOver20 - m.TotalVisits * m.PctOver20) <= m.TotalVisits

ProviderOk(p) ==
    IF ParsableOf(p) = <<>> THEN MetricsRowsOf(p) = <<>>
    ELSE /\ Len(MetricsRowsOf(p)) = 1
         /\ CountsOk(MetricsRowsOf(p)[1], p)
         /\ PercentRounded(MetricsRowsOf(p)[1])

\* C17: every non-excluded provider of the visit log with a visit whose
\* duration parses has one row in Doxy Performance Metrics: Total Visits
\* counts its visits with a parsable duration (at most its count in Doxy
\* Visits), Visits Over 20 Min those strictly longer than 20 minutes, and
\* % Over 20 Min is 100 * over / total rounded to one decimal, within
\* [0, 100]; a provider with no parsable duration has no row, no row is for a
\* provider without visits, and the rows are sorted by Total Visits,
\* descending.
C17_PerformanceMetrics ==
    ~performance_metrics.isNone =>
       /\ \A i \in 1..Len(doxy_df.rows) :
             ~should_exclude_name(doxy_df.rows[i].ProviderName)
                => ProviderOk(doxy_df.rows[i].ProviderName)
       /\ \A j \in 1..Len(performance_metrics.rows) :
             ParsableOf(performance_metrics.rows[j].Provider) # <<>>
       /\ \A j \in 1..(Len(performance_metrics.rows) - 1) :
             performance_metrics.rows[j].TotalVisits
               >= performance_metrics.rows[j + 1].TotalVisits

\* Visits of 25, 20 and 30 minutes: three counted, two over 20 minutes,
\* 66.7%; the row comes before that of the provider with one visit.
C17_Witness ==
    /\ pc = "done"
    /\ Len(performance_metrics.rows) = 2
    /\ performance_metrics.rows[1].TotalVisits = 3
    /\ performance_metrics.rows[1].VisitsOver20 = 2
    /\ performance_metrics.rows[1].PctOver20 = 667
    /\ performance_metrics.rows[2].TotalVisits = 1
    /\ performance_metrics.rows[2].PctOver20 = 0
    /\ str_less(performance_metrics.rows[2].Provider, performance_metrics.rows[1].Provider)



(***************************************************************************)
(* Properties of the program pivot on extracted rows                       *)
(***************************************************************************)
\* The extracted rows with status exactly Completed and a name that is not
\* denylisted; those of provider p in category c.
Qualifying ==
    SelectSeq(ExtractedRows, LAMBDA r :
        r.Status = Completed /\ ~should_exclude_name(r.Provider))

QualifyingOf(p, c) ==
    Len(SelectSeq(Qualifying, LAMBDA r : r.Provider = p /\ get_category(r.EventType) = c))

PivotRowsOf(p) == SelectSeq(visits_by_program.rows, LAMBDA v : v.Provider = p)

PivotRowOk(v) ==
    /\ v.TRT = QualifyingOf(v.Provider, "TRT")
    /\ v.HRT = QualifyingOf(v.Provider, "HRT")
    /\ v.Other = QualifyingOf(v.Provider, "Other")
    /\ v.Total = v.TRT + v.HRT + v.Other
    /\ v.Total >= 1

CategoryColumn(col, c) ==
    IsIn(visits_by_program.columns, col)
       <=> \E i \in 1..Len(Qualifying) : get_category(Qualifying[i].EventType) = c

\* C18: when rows are extracted, the pivot of app.py has exactly one row for
\* each provider with a Completed, non-denylisted row and no other row; a
\* category has a column when a counted row is in it, and the row holds the
\* provider's count in each category; Total is the sum of the categories, so
\* the Totals add up to the number of Completed non-denylisted rows; the rows
\* are sorted by Total, descending.
C18_ProgramPivot ==
    (entry = "app" /\ ~visits_by_program.isNone /\ Extracted /\ ExtractedRows # <<>>) =>
       /\ \A i \in 1..Len(Qualifying) : Len(PivotRowsOf(Qualifying[i].Provider)) = 1
       /\ \A j \in 1..Len(visits_by_program.rows) : PivotRowOk(visits_by_program.rows[j])
       /\ CategoryColumn(TRT, "TRT")
       /\ CategoryColumn(HRT, "HRT")
       /\ CategoryColumn(COL_Other, "Other")
       /\ IsIn(visits_by_program.columns, COL_Provider)
       /\ IsIn(visits_by_program.columns, COL_Total)
       /\ SumOver(visits_by_program.rows, LAMBDA v : v.Total) = Len(Qualifying)
       /\ \A j \in 1..(Len(visits_by_program.rows) - 1) :
             visits_by_program.rows[j].Total >= visits_by_program.rows[j + 1].Total

\* Four rows of delimited text: the provider with two counted rows comes
\* first, the other provider's row of another status is in no count.
C18_Witness ==
    /\ entry = "app" /\ pc = "done"
    /\ Len(ExtractedRows) = 4
    /\ Len(Qualifying) = 3
    /\ \E i \in 1..4 : /\ str_lower(ExtractedRows[i].Status) = str_lower(Completed)
                       /\ ExtractedRows[i].Status # Completed
    /\ Len(visits_by_program.rows) = 2
    /\ visits_by_program.rows[1].Total = 2
    /\ visits_by_program.rows[2].Total = 1
    /\ str_less(visits_by_program.rows[2].Provider, visits_by_program.rows[1].Provider)

====
